---- MODULE Spec2Model ----
(***************************************************************************)
(* Model of the extension verification harness of tab-napper:              *)
(*   jules-scratch/verification/verify_extension.py  (run)                 *)
(*   jules-scratch/verification/debug_worker.py      (run)                 *)
(* Both scripts drive a browser through Playwright's synchronous API.      *)
(* The harness is one thread; the browser's "serviceworker" notification   *)
(* is dispatched to the client only while the harness is blocked inside an *)
(* API call (launch, wait_for_event, new_page, goto, screenshot).          *)
(* Strings the code splits or concatenates are sequences of one-character  *)
(* strings, so that split and the URL template are computed.               *)
(***************************************************************************)
EXTENDS Integers, Sequences, FiniteSets, TLC

VARIABLES
    prog,             \* which script runs
    pc,               \* position of run()
    idx,              \* which of the two pages (lines 28-29 / 32-33) is current
    context,          \* the local `context`: "unbound", "open", "closed"
    service_workers,  \* context.service_workers, in registration order
    service_worker,   \* the local `service_worker` (its url), or None
    extension_id,     \* the local `extension_id`, or None
    page,             \* NoPage, BlankPage, or the URL of the active document
    elapsed,          \* ms spent inside the current wait_for_event
    timedOut,         \* wait_for_event raised its timeout error
    presentAtStart,   \* a worker was registered when discovery began
    waits,            \* number of wait_for_event calls made
    checks,           \* number of evaluations of context.service_workers (line 18)
    relPath,          \* relative path of the last URL composed
    url,              \* last URL composed for page.goto
    navlog,           \* URLs passed to page.goto, in order, with the outcome
    captures,         \* screenshots taken: <<output path, document shown>>
    files,            \* output path -> document shown in the image, or None
    exception,        \* the exception propagating out of run(), or "none"
    caught,           \* the exception bound to `e` in the except clause
    output,           \* lines printed to stdout
    closeCalls,       \* number of context.close() calls
    exitCode,         \* process exit status once the with-block is left
    launches          \* number of launch_persistent_context calls

vars == <<prog, pc, idx, context, service_workers, service_worker, extension_id,
          page, elapsed, timedOut, presentAtStart, waits, checks, relPath, url,
          navlog, captures, files, exception, caught, output, closeCalls, exitCode,
          launches>>

None == <<"None">>

\* values of `page` that are not a navigated document: no page yet, and the
\* blank document of a page just created
NoPage == <<"none">>
BlankPage == <<"about:blank">>

\* ------------------------------------------------------------------ bounds
\* how many service workers the browser registers at most in one run
MaxWorkers == 2
\* granularity of the clock while wait_for_event blocks, in ms
TickMs == 5000
\* longest relative path drawn for the URL template
MaxPathLen == 3

\* ------------------------------------------------------------- constants
\* debug_worker.py:18  timeout=15000
DebugTimeoutMs == 15000
\* verify_extension.py:21 passes no timeout: the library default applies
DefaultTimeoutMs == 30000

Programs == {"verify_extension", "debug_worker"}

\* "chrome-extension:" , the first token of the template of lines 28 and 32
Scheme == <<"c","h","r","o","m","e","-","e","x","t","e","n","s","i","o","n",":">>

\* the identifiers the browser may assign to a loaded extension
Ids == { <<"a","b">>, <<"p">>, <<"c","d","e">> }

\* paths of a background script inside the bundle
WorkerPaths == { <<"s","w",".","j","s">>, <<"b","g","/","s","w",".","j","s">> }

\* URL of a service worker: <scheme>://<identifier>/<path>
WorkerUrl(id, path) == Scheme \o <<"/", "/">> \o id \o <<"/">> \o path

WorkerUrls == { WorkerUrl(id, path) : id \in Ids, path \in WorkerPaths }

\* ------------------------------------------------------------ pure parts
\* str.split('/'): every '/' ends a token, empty tokens are kept
RECURSIVE SplitFrom(_, _)
SplitFrom(s, cur) ==
    IF s = <<>> THEN <<cur>>
    ELSE IF Head(s) = "/" THEN <<cur>> \o SplitFrom(Tail(s), <<>>)
    ELSE SplitFrom(Tail(s), Append(cur, Head(s)))

split(s) == SplitFrom(s, <<>>)

\* mutant: an off-by-one index into the split
ExtractIdNext(u) == split(u)[4]

\* verify_extension.py:23  service_worker.url.split('/')[2]
ExtractId(u) == split(u)[3]

\* verify_extension.py:19  context.service_workers[0]
FirstWorker(sws) == sws[1]

\* mutant: the identifier re-read from the latest registered worker
GotoUrlLatest(id, rel) ==
    Scheme \o <<"/", "/">> \o ExtractId(service_workers[Len(service_workers)])
           \o <<"/">> \o rel

\* mutant: the template without its separator
GotoUrlNoSep(id, rel) == Scheme \o <<"/", "/">> \o id \o rel

\* verify_extension.py:28,32  f"chrome-extension://{extension_id}/<relative path>"
GotoUrl(id, rel) == Scheme \o <<"/", "/">> \o id \o <<"/">> \o rel

TriageHub == <<"t","r","i","a","g","e","_","h","u","b",".","h","t","m","l">>
NoteHtml == <<"n","o","t","e",".","h","t","m","l">>

\* mutant: the second navigation goes to the first page again
RelPathOfSame(i) == TriageHub

\* the relative path of the i-th page visited (lines 28, 32)
RelPathOf(i) == IF i = 1 THEN TriageHub ELSE NoteHtml

\* mutant: both screenshots written to the same file
ShotPathSame(i) == "jules-scratch/verification/triage_hub_ext.png"

\* the output path of the i-th screenshot (lines 29, 33)
ShotPath(i) ==
    IF i = 1 THEN "jules-scratch/verification/triage_hub_ext.png"
    ELSE "jules-scratch/verification/note_ext.png"

NumPages == 2

ShotPaths == { ShotPath(i) : i \in 1..NumPages }

\* the timeout of the wait_for_event call of each script
WaitTimeout(p) == IF p = "debug_worker" THEN DebugTimeoutMs ELSE DefaultTimeoutMs

\* mutant: the launch moved inside debug_worker's try block
HandlerLaunchInTry(p, site) ==
    IF p = "debug_worker" /\ site \in {"launch", "wait"} THEN "try" ELSE "none"

\* which handler encloses a raising call: debug_worker.py wraps only the wait
\* (lines 17-24) in try/except/finally; verify_extension.py has no handler
Handler(p, site) ==
    IF p = "debug_worker" /\ site = "wait" THEN "try" ELSE "none"

\* --------------------------------------------------------------- the run
Init ==
    /\ prog \in Programs
    /\ pc = "start"
    /\ idx = 0
    /\ context = "unbound"
    /\ service_workers = <<>>
    /\ service_worker = None
    /\ extension_id = None
    /\ page = NoPage
    /\ elapsed = 0
    /\ timedOut = FALSE
    /\ presentAtStart = FALSE
    /\ waits = 0
    /\ checks = 0
    /\ relPath = None
    /\ url = None
    /\ navlog = <<>>
    /\ captures = <<>>
    /\ files = [f \in ShotPaths |-> None]
    /\ exception = "none"
    /\ caught = "none"
    /\ output = <<>>
    /\ closeCalls = 0
    /\ exitCode = -1
    /\ launches = 0

\* mutant: a failed launch is tried again instead of being raised
RaiseRelaunch(exc, site) ==
    IF site = "launch"
    THEN /\ pc' = "start"
         /\ caught' = caught
         /\ exception' = exception
    ELSE IF prog = "debug_worker" /\ site = "wait"
    THEN /\ pc' = "except"
         /\ caught' = exc
         /\ exception' = exception
    ELSE /\ pc' = "raised"
         /\ exception' = exc
         /\ caught' = caught

\* mutant: a timed-out wait is tried again instead of being raised
RaiseRetry(exc, site) ==
    IF site = "wait"
    THEN /\ pc' = "wait"
         /\ caught' = caught
         /\ exception' = exception
    ELSE /\ pc' = "raised"
         /\ exception' = exc
         /\ caught' = caught

\* an exception raised by the call at `site`: debug_worker's except clause
\* (line 21) catches it inside the try block, otherwise it leaves run()
Raise(exc, site) ==
    IF Handler(prog, site) = "try"
    THEN /\ pc' = "except"
         /\ caught' = exc
         /\ exception' = exception
    ELSE /\ pc' = "raised"
         /\ exception' = exc
         /\ caught' = caught

\* the calls during which the client dispatches browser notifications
Blocking == {"launch", "waiting", "new_page", "goto", "shot"}

\* line 8: launch_persistent_context is entered
LaunchBegin ==
    /\ pc = "start"
    /\ pc' = "launch"
    /\ launches' = launches + 1
    /\ UNCHANGED <<prog, idx, context, service_workers, service_worker, extension_id,
                   page, elapsed, timedOut, presentAtStart, waits, checks, relPath,
                   url, navlog, captures, files, exception, caught, output,
                   closeCalls, exitCode>>

\* lines 8-15: the launch returns a context
LaunchOk ==
    /\ pc = "launch"
    /\ context' = "open"
    /\ pc' = IF prog = "verify_extension" THEN "check" ELSE "wait"
    /\ presentAtStart' = IF prog = "debug_worker" THEN service_workers # <<>>
                         ELSE presentAtStart
    /\ UNCHANGED <<prog, launches, idx, service_workers, service_worker, extension_id,
                   page, elapsed, timedOut, waits, checks, relPath,
                   url, navlog, captures, files, exception, caught, output,
                   closeCalls, exitCode>>

\* lines 8-15: the launch raises; `context` is never bound
LaunchFail ==
    /\ pc = "launch"
    /\ service_workers = <<>>
    /\ Raise("LaunchFailure", "launch")
    /\ UNCHANGED <<prog, launches, idx, context, service_workers, service_worker, extension_id,
                   page, elapsed, timedOut, presentAtStart, waits, checks, relPath,
                   url, navlog, captures, files, output, closeCalls, exitCode>>

\* verify_extension.py:18-20: the enumeration, and line 19 when it is not empty
Check ==
    /\ pc = "check"
    /\ checks' = checks + 1
    /\ presentAtStart' = (service_workers # <<>>)
    /\ IF service_workers # <<>>
       THEN /\ service_worker' = FirstWorker(service_workers)
            /\ pc' = "split"
       ELSE /\ service_worker' = service_worker
            /\ pc' = "wait"
    /\ UNCHANGED <<prog, launches, idx, context, service_workers, extension_id,
                   page, elapsed, timedOut, waits, relPath,
                   url, navlog, captures, files, exception, caught, output,
                   closeCalls, exitCode>>

\* verify_extension.py:21 / debug_worker.py:18: wait_for_event subscribes and blocks
BeginWait ==
    /\ pc = "wait"
    /\ waits' = waits + 1
    /\ elapsed' = 0
    /\ pc' = "waiting"
    /\ UNCHANGED <<prog, launches, idx, context, service_workers, service_worker, extension_id,
                   page, timedOut, presentAtStart, checks, relPath,
                   url, navlog, captures, files, exception, caught, output,
                   closeCalls, exitCode>>

\* the browser registers a service worker and the client dispatches the
\* notification: the context's list grows, and a blocked wait_for_event returns it
ServiceWorkerEvent(u) ==
    /\ pc \in Blocking
    /\ Len(service_workers) < MaxWorkers
    /\ service_workers' = Append(service_workers, u)
    /\ IF pc = "waiting"
       THEN /\ service_worker' = u
            /\ pc' = IF prog = "verify_extension" THEN "split" ELSE "found"
       ELSE /\ service_worker' = service_worker
            /\ pc' = pc
    /\ UNCHANGED <<prog, launches, idx, context, extension_id,
                   page, elapsed, timedOut, presentAtStart, waits, checks, relPath,
                   url, navlog, captures, files, exception, caught, output,
                   closeCalls, exitCode>>

\* time passes while wait_for_event blocks
Tick ==
    /\ pc = "waiting"
    /\ elapsed < WaitTimeout(prog)
    /\ elapsed' = elapsed + TickMs
    /\ UNCHANGED <<prog, launches, pc, idx, context, service_workers, service_worker,
                   extension_id, page, timedOut, presentAtStart, waits, checks,
                   relPath, url, navlog, captures, files, exception, caught, output,
                   closeCalls, exitCode>>

\* mutant: the timed-out wait also closes the context before it raises
TimeoutClosing ==
    /\ pc = "waiting"
    /\ elapsed >= WaitTimeout(prog)
    /\ timedOut' = TRUE
    /\ context' = "closed"
    /\ Raise("ServiceWorkerTimeout", "wait")
    /\ UNCHANGED <<prog, launches, idx, service_workers, service_worker,
                   extension_id, page, elapsed, presentAtStart, waits, checks,
                   relPath, url, navlog, captures, files, output,
                   closeCalls, exitCode>>

\* the timeout of wait_for_event expires: it raises
Timeout ==
    /\ pc = "waiting"
    /\ elapsed >= WaitTimeout(prog)
    /\ timedOut' = TRUE
    /\ Raise("ServiceWorkerTimeout", "wait")
    /\ UNCHANGED <<prog, launches, idx, context, service_workers, service_worker,
                   extension_id, page, elapsed, presentAtStart, waits, checks,
                   relPath, url, navlog, captures, files, output,
                   closeCalls, exitCode>>

\* debug_worker.py:19-20: the two prints after the wait returned
Found ==
    /\ pc = "found"
    /\ output' = output \o << [msg |-> "Service worker found!", arg |-> None],
                              [msg |-> "url", arg |-> service_worker] >>
    /\ pc' = "finally"
    /\ UNCHANGED <<prog, launches, idx, context, service_workers, service_worker,
                   extension_id, page, elapsed, timedOut, presentAtStart, waits,
                   checks, relPath, url, navlog, captures, files, exception, caught,
                   closeCalls, exitCode>>

\* debug_worker.py:21-22: the except clause prints the error
Except ==
    /\ pc = "except"
    /\ output' = Append(output, [msg |-> "Error waiting for service worker",
                                 arg |-> <<caught>>])
    /\ pc' = "finally"
    /\ UNCHANGED <<prog, launches, idx, context, service_workers, service_worker,
                   extension_id, page, elapsed, timedOut, presentAtStart, waits,
                   checks, relPath, url, navlog, captures, files, exception, caught,
                   closeCalls, exitCode>>

\* debug_worker.py:23-24: the finally clause closes the context; an unbound
\* `context` makes the statement itself raise
Finally ==
    /\ pc = "finally"
    /\ IF context = "unbound"
       THEN /\ exception' = "UnboundLocalError"
            /\ pc' = "raised"
            /\ UNCHANGED <<context, closeCalls>>
       ELSE /\ context' = "closed"
            /\ closeCalls' = closeCalls + 1
            /\ pc' = "returned"
            /\ UNCHANGED exception
    /\ UNCHANGED <<prog, launches, idx, service_workers, service_worker,
                   extension_id, page, elapsed, timedOut, presentAtStart, waits,
                   checks, relPath, url, navlog, captures, files, caught, output,
                   exitCode>>

\* verify_extension.py:23: the identifier is cut out of the worker's url
Split ==
    /\ pc = "split"
    /\ IF Len(split(service_worker)) < 3
       THEN /\ Raise("IndexError", "split")
            /\ UNCHANGED extension_id
       ELSE /\ extension_id' = ExtractId(service_worker)
            /\ pc' = "new_page"
            /\ UNCHANGED <<exception, caught>>
    /\ UNCHANGED <<prog, launches, idx, context, service_workers, service_worker,
                   page, elapsed, timedOut, presentAtStart, waits,
                   checks, relPath, url, navlog, captures, files, output,
                   closeCalls, exitCode>>

\* verify_extension.py:25: context.new_page()
NewPage ==
    /\ pc = "new_page"
    /\ page' = BlankPage
    /\ idx' = 1
    /\ pc' = "goto"
    /\ UNCHANGED <<prog, launches, context, service_workers, service_worker,
                   extension_id, elapsed, timedOut, presentAtStart, waits,
                   checks, relPath, url, navlog, captures, files, exception, caught,
                   output, closeCalls, exitCode>>

\* verify_extension.py:28,32: page.goto returns once the navigation completed
GotoOk ==
    /\ pc = "goto"
    /\ relPath' = RelPathOf(idx)
    /\ url' = GotoUrl(extension_id, RelPathOf(idx))
    /\ page' = url'
    /\ navlog' = Append(navlog, [url |-> url', ok |-> TRUE])
    /\ pc' = "shot"
    /\ UNCHANGED <<prog, launches, idx, context, service_workers, service_worker,
                   extension_id, elapsed, timedOut, presentAtStart, waits,
                   checks, captures, files, exception, caught,
                   output, closeCalls, exitCode>>

\* verify_extension.py:28,32: page.goto raises (page missing, or its timeout)
GotoFail ==
    /\ pc = "goto"
    /\ relPath' = RelPathOf(idx)
    /\ url' = GotoUrl(extension_id, RelPathOf(idx))
    /\ navlog' = Append(navlog, [url |-> url', ok |-> FALSE])
    /\ Raise("NavigationFailure", "goto")
    /\ UNCHANGED <<prog, launches, idx, context, service_workers, service_worker,
                   extension_id, page, elapsed, timedOut, presentAtStart, waits,
                   checks, captures, files, output, closeCalls, exitCode>>

\* verify_extension.py:29,33: page.screenshot writes the page's document
ScreenshotOk ==
    /\ pc = "shot"
    /\ files' = [files EXCEPT ![ShotPath(idx)] = page]
    /\ captures' = Append(captures, [path |-> ShotPath(idx), doc |-> page])
    /\ IF idx < NumPages
       THEN /\ idx' = idx + 1
            /\ pc' = "goto"
       ELSE /\ idx' = idx
            /\ pc' = "close"
    /\ UNCHANGED <<prog, launches, context, service_workers, service_worker,
                   extension_id, page, elapsed, timedOut, presentAtStart, waits,
                   checks, relPath, url, navlog, exception, caught,
                   output, closeCalls, exitCode>>

\* verify_extension.py:29,33: page.screenshot raises (unwritable path)
ScreenshotFail ==
    /\ pc = "shot"
    /\ Raise("CaptureFailure", "shot")
    /\ UNCHANGED <<prog, launches, idx, context, service_workers, service_worker,
                   extension_id, page, elapsed, timedOut, presentAtStart, waits,
                   checks, relPath, url, navlog, captures, files,
                   output, closeCalls, exitCode>>

\* verify_extension.py:35: context.close()
Close ==
    /\ pc = "close"
    /\ context' = "closed"
    /\ closeCalls' = closeCalls + 1
    /\ pc' = "returned"
    /\ UNCHANGED <<prog, launches, idx, service_workers, service_worker,
                   extension_id, page, elapsed, timedOut, presentAtStart, waits,
                   checks, relPath, url, navlog, captures, files, exception, caught,
                   output, exitCode>>

\* lines 37-38 / 26-27: the with-block is left and the process exits, with a
\* non-zero status when an exception left run()
WithExit ==
    /\ pc \in {"returned", "raised"}
    /\ exitCode' = IF pc = "raised" THEN 1 ELSE 0
    /\ pc' = "exited"
    /\ UNCHANGED <<prog, launches, idx, context, service_workers, service_worker,
                   extension_id, page, elapsed, timedOut, presentAtStart, waits,
                   checks, relPath, url, navlog, captures, files, exception, caught,
                   output, closeCalls>>

Next ==
    \/ LaunchBegin
    \/ LaunchOk
    \/ LaunchFail
    \/ Check
    \/ BeginWait
    \/ \E u \in WorkerUrls : ServiceWorkerEvent(u)
    \/ Tick
    \/ Timeout
    \/ Found
    \/ Except
    \/ Finally
    \/ Split
    \/ NewPage
    \/ GotoOk
    \/ GotoFail
    \/ ScreenshotOk
    \/ ScreenshotFail
    \/ Close
    \/ WithExit

Spec == Init /\ [][Next]_vars

\* the steps of the harness and of the timer of a blocked wait: every call of
\* the sequential script returns or raises, and the clock of a wait advances
\* until its timeout; the browser is not obliged to register a worker
Progress ==
    \/ LaunchBegin
    \/ LaunchOk
    \/ LaunchFail
    \/ Check
    \/ BeginWait
    \/ Tick
    \/ Timeout
    \/ Found
    \/ Except
    \/ Finally
    \/ Split
    \/ NewPage
    \/ GotoOk
    \/ GotoFail
    \/ ScreenshotOk
    \/ ScreenshotFail
    \/ Close
    \/ WithExit

FairSpec == Spec /\ WF_vars(Progress)

\* ------------------------------------------------- the URL functions alone
\* characters a relative path is drawn from
PathChars == {"/", "n", "."}

\* non-empty relative paths: the two the harness uses and all short ones
RelPaths ==
    {TriageHub, NoteHtml} \cup
    UNION { [1..n -> PathChars] : n \in 1..MaxPathLen }

\* the identifier extraction and the URL template applied to drawn inputs
InitCompose ==
    /\ prog = "verify_extension"
    /\ pc = "compose"
    /\ idx = 0
    /\ context = "open"
    /\ service_workers = <<>>
    /\ service_worker \in WorkerUrls
    /\ extension_id = None
    /\ page = NoPage
    /\ elapsed = 0
    /\ timedOut = FALSE
    /\ presentAtStart = FALSE
    /\ waits = 0
    /\ checks = 0
    /\ relPath \in RelPaths
    /\ url = None
    /\ navlog = <<>>
    /\ captures = <<>>
    /\ files = [f \in ShotPaths |-> None]
    /\ exception = "none"
    /\ caught = "none"
    /\ output = <<>>
    /\ closeCalls = 0
    /\ exitCode = -1
    /\ launches = 1

\* verify_extension.py:23 applied to the drawn worker url
ComposeSplit ==
    /\ pc = "compose"
    /\ extension_id' = ExtractId(service_worker)
    /\ pc' = "compose_id"
    /\ UNCHANGED <<prog, launches, idx, context, service_workers, service_worker,
                   page, elapsed, timedOut, presentAtStart, waits,
                   checks, relPath, url, navlog, captures, files, exception, caught,
                   output, closeCalls, exitCode>>

\* the template of verify_extension.py:28,32 applied to the drawn relative path
ComposeUrl ==
    /\ pc = "compose_id"
    /\ url' = GotoUrl(extension_id, relPath)
    /\ pc' = "composed"
    /\ UNCHANGED <<prog, launches, idx, context, service_workers, service_worker,
                   extension_id, page, elapsed, timedOut, presentAtStart, waits,
                   checks, relPath, navlog, captures, files, exception, caught,
                   output, closeCalls, exitCode>>

NextCompose ==
    \/ ComposeSplit
    \/ ComposeUrl

SpecCompose == InitCompose /\ [][NextCompose]_vars

\* ------------------------------------------------------- session state
\* the state of the session as the run's variables show it
SessionState ==
    IF pc = "start" THEN "Unopened"
    ELSE IF context = "unbound" THEN "Launching"
    ELSE IF context = "closed" THEN "Closed"
    ELSE IF \E i \in 1..Len(navlog) : navlog[i].ok THEN "Navigated"
    ELSE IF service_worker # None THEN "IdentityResolved"
    ELSE IF waits > 0 THEN "ServiceWorkerPending"
    ELSE "Launched"

\* the run is over: the with-block was left
Ended == pc = "exited"

\* the session was opened: the launch returned a context
Opened == context # "unbound"

Failures == {"LaunchFailure", "ServiceWorkerTimeout", "NavigationFailure",
             "CaptureFailure"}

\* ---------------------------------------------------------------- claims

\* C1: every run that opened the session has called close exactly once by the
\* time it ends, whatever the exit path (normal completion, discovery timeout,
\* failed navigation, failed capture)
C1_CloseExactlyOnce == (Ended /\ Opened) => closeCalls = 1

\* C2: a worker registered before discovery began is returned without a wait,
\* and discovery never times out while a worker is registered on the session
C2_NoLostRegistration ==
    /\ presentAtStart => (waits = 0 /\ ~timedOut)
    /\ timedOut => service_workers = <<>>

\* the timeoutMs of the stated scenario
ScenarioTimeoutMs == DebugTimeoutMs

\* C3: the ServiceWorkerTimeout failure occurs once the caller's timeoutMs
\* (15000) has fully elapsed since the wait began: not earlier, and not at the
\* expiry of some other bound
C3_TimeoutAtCallerBound ==
    timedOut => /\ elapsed >= ScenarioTimeoutMs
                /\ elapsed < ScenarioTimeoutMs + TickMs

\* C4: the identifier is the authority of the url of the first worker observed
\* (the first of the enumeration when one is present, which then needs no wait);
\* for a url scheme://identifier/path it is identifier verbatim and non-empty
C4_IdentityOfFirstWorker ==
    extension_id # None =>
        /\ service_worker = service_workers[1]
        /\ extension_id # <<>>
        /\ \E id \in Ids, path \in WorkerPaths :
              /\ service_workers[1] = WorkerUrl(id, path)
              /\ extension_id = id
        /\ presentAtStart => waits = 0

\* C4 witness: the identity was resolved while a second, different worker is
\* registered on the session
C4_Witness ==
    /\ extension_id # None
    /\ Len(service_workers) = 2
    /\ ExtractId(service_workers[1]) # ExtractId(service_workers[2])

\* the tokens of scheme://identifier/relativePath
ExpectedTokens(id, rel) == <<Scheme, <<>>, id>> \o split(rel)

C6_LaunchFailureNotMasked ==
    /\ (~Opened /\ pc \in {"raised", "exited"}) =>
           (exception = "LaunchFailure" /\ closeCalls = 0)
    /\ ~Opened => pc \notin {"except", "finally", "close"}
    /\ exception # "none" => exception \in Failures

\* C6 witness: a run ended by a failed launch
C6_Witness == Ended /\ ~Opened /\ exception = "LaunchFailure"

\* C7: after the navigation to triage_hub.html failed, note.html is still
\* navigated to before the run ends
C7_NavigationFailureNonFatal ==
    (Ended /\ Len(navlog) >= 1 /\ ~navlog[1].ok) =>
        /\ Len(navlog) = NumPages
        /\ navlog[2].url = GotoUrl(extension_id, NoteHtml)

\* C8: discovery is attempted at most once, and a timeout ends as a handled
\* outcome with a diagnostic message, not as an exception leaving the run
C8_TimeoutReported ==
    /\ waits <= 1
    /\ checks <= 1
    /\ (Ended /\ timedOut) =>
          /\ exception = "none"
          /\ exitCode = 0
          /\ \E i \in 1..Len(output) :
                output[i].arg = <<"ServiceWorkerTimeout">>

\* C9: a run of verify_extension that completes has taken exactly two
\* captures, triage_hub.html to its file and note.html to another, and has
\* closed the session
C9_TwoCaptures ==
    (prog = "verify_extension" /\ pc \in {"returned", "exited"}
                               /\ exception = "none") =>
        /\ Len(captures) = 2
        /\ captures[1].path # captures[2].path
        /\ captures[1].doc = WorkerUrl(extension_id, TriageHub)
        /\ captures[2].doc = WorkerUrl(extension_id, NoteHtml)
        /\ files[captures[1].path] = captures[1].doc
        /\ files[captures[2].path] = captures[2].doc
        /\ context = "closed"
        /\ closeCalls = 1

\* C9 witness: a completed full run of verify_extension
C9_Witness ==
    /\ prog = "verify_extension"
    /\ Ended
    /\ exception = "none"
    /\ Len(captures) = 2

\* the moves of the session state the state machine allows
AllowedMove(a, b) ==
    \/ a = b
    \/ a = "Unopened" /\ b = "Launching"
    \/ a = "Launching" /\ b = "Launched"
    \/ a = "Launched" /\ b \in {"ServiceWorkerPending", "IdentityResolved"}
    \/ a = "ServiceWorkerPending" /\ b = "IdentityResolved"
    \/ a = "IdentityResolved" /\ b = "Navigated"
    \/ a \in {"Launched", "ServiceWorkerPending", "IdentityResolved", "Navigated"}
       /\ b = "Closed"

\* the session state only moves along the state machine, and nothing leaves
\* Closed
OrderKept == [][AllowedMove(SessionState, SessionState')]_vars

\* no run stops for good in a state of an opened session other than Closed
ClosedReached == (Ended /\ Opened) => SessionState = "Closed"

\* C10: the session state only moves along Unopened -> Launching -> Launched
\* -> (ServiceWorkerPending | IdentityResolved) -> Navigated* -> Closed, Closed
\* is terminal, and Closed is reached from every state of an opened session:
\* no run ends with its opened session in another state
C10_StateMachine == OrderKept /\ []ClosedReached


\* C11: once the first capture has written its image file, every later step,
\* a failing navigation or capture included, leaves that file as written
C11_EarlierFileKept ==
    [][Len(captures) >= 1 =>
          files'[captures[1].path] = captures[1].doc]_vars

\* C11 witness: the run ended on a failure after the first capture, and the
\* first image file holds the triage_hub.html document
C11_Witness ==
    /\ Ended
    /\ exception \in {"NavigationFailure", "CaptureFailure"}
    /\ Len(captures) = 1
    /\ files["jules-scratch/verification/triage_hub_ext.png"] =
          WorkerUrl(extension_id, TriageHub)


\* the identity is set only after a worker was observed, and every navigation
\* made so far went to a URL of that identity
IdentityUsed ==
    /\ extension_id # None => service_worker # None
    /\ navlog # <<>> => extension_id # None
    /\ \A i \in 1..Len(navlog) :
          navlog[i].url = WorkerUrl(extension_id, RelPathOf(i))

\* C12: the identity is unset until a service worker has been observed, is
\* assigned once and never changes afterwards, and every navigation of the run
\* uses it, also when another worker registers after the resolution
C12_IdentityImmutable ==
    /\ []IdentityUsed
    /\ [][extension_id # None => extension_id' = extension_id]_vars

\* C12 witness: both navigations were made after a wait resolved the identity
\* and a second worker of another identifier registered later
C12_Witness ==
    /\ Len(navlog) = 2
    /\ waits = 1
    /\ Len(service_workers) = 2
    /\ ExtractId(service_workers[2]) # extension_id


\* the wait is made at most once, and once it is over it has resolved in
\* exactly one way: the event delivered a worker, or the timeout was raised
SingleShot ==
    /\ waits <= 1
    /\ pc = "waiting" => (~timedOut /\ service_worker = None)
    /\ (waits = 1 /\ pc \notin {"wait", "waiting"}) =>
          (timedOut <=> service_worker = None)

\* C13: every run terminates, and its discovery wait is single-shot and
\* resolves either by the registration event or by the timeout, never by both
\* and never by neither
C13_Terminates == <>Ended /\ []SingleShot

\* C13 witness: a run that blocked in the wait, was released by the timeout,
\* and ended
C13_Witness == Ended /\ waits = 1 /\ timedOut /\ service_worker = None


\* the positions of run() inside service-worker discovery: the enumeration,
\* the wait, and the extraction of the identifier
DiscoveryPcs == {"check", "wait", "waiting", "split"}

\* a step taken during discovery leaves the pages and the status of the
\* session alone, and the workers too unless the browser registers one
ReadOnlyStep ==
    pc \in DiscoveryPcs =>
        /\ page' = page
        /\ context' = context
        /\ \/ service_workers' = service_workers
           \/ /\ pc = "waiting"
              /\ \E u \in WorkerUrls :
                    service_workers' = Append(service_workers, u)

\* C14: a step taken during discovery, whether it returns the worker already
\* present, the worker of the event, or the timeout, leaves the open pages and
\* the open/closed status of the session unchanged, and changes the registered
\* workers only by the browser's own registration that ends the wait
C14_DiscoveryReadOnly == [][ReadOnlyStep]_vars

\* C14 witness: discovery returned by the event path and the session is as
\* the launch left it: open, no page, only the worker the browser registered
C14_Witness ==
    /\ pc = "new_page"
    /\ waits = 1
    /\ context = "open"
    /\ page = NoPage
    /\ Len(service_workers) = 1


\* the page and the image file of the i-th capture, as the spec names them
ExpectedPage(i) == IF i = 1 THEN TriageHub ELSE NoteHtml
ExpectedFile(i) ==
    IF i = 1 THEN "jules-scratch/verification/triage_hub_ext.png"
    ELSE "jules-scratch/verification/note_ext.png"

\* C15: every capture is taken after the navigation to its page completed and
\* before the next navigation begins: the i-th capture shows the document of
\* the i-th navigation, which succeeded, triage_hub.html in the triage_hub file
\* and note.html in the note file, on the one reused page
C15_CaptureAfterNavigation ==
    /\ Len(navlog) <= Len(captures) + 1
    /\ pc = "shot" => (navlog[Len(navlog)].ok /\ page = navlog[Len(navlog)].url)
    /\ \A i \in 1..Len(captures) :
          /\ i <= Len(navlog)
          /\ navlog[i].ok
          /\ captures[i].doc = navlog[i].url
          /\ captures[i].doc = WorkerUrl(extension_id, ExpectedPage(i))
          /\ captures[i].path = ExpectedFile(i)
          /\ files[ExpectedFile(i)] = captures[i].doc

\* C15 witness: both captures were taken, the second after the page was
\* navigated away from the first document
C15_Witness ==
    /\ Len(captures) = 2
    /\ captures[1].doc # captures[2].doc
    /\ page = captures[2].doc


\* C16: a run launches one persistent context and no second one, and the page
\* it navigates, the worker it uses and the identity it navigates with all
\* come from that session
C16_OneSession ==
    /\ launches <= 1
    /\ Opened => launches = 1
    /\ page # NoPage => Opened
    /\ service_worker # None =>
          \E k \in 1..Len(service_workers) : service_worker = service_workers[k]
    /\ extension_id # None =>
          \E k \in 1..Len(service_workers) :
             service_workers[k] \in
                { WorkerUrl(extension_id, path) : path \in WorkerPaths }
    /\ \A i \in 1..Len(navlog) :
          split(navlog[i].url)[3] = extension_id

\* C16 witness: a run that launched, navigated both pages and ended
C16_Witness ==
    /\ Ended
    /\ launches = 1
    /\ Len(navlog) = 2
    /\ context = "closed"

====
